---- MODULE Spec2Model ----
(***************************************************************************)
(* A model of web-ifc-three's PropertyManager (spatial tree and property   *)
(* queries over a parsed IFC record table) and IFCParser (geometry loading *)
(* into state.models).                                                      *)
(*                                                                          *)
(* JavaScript values are modelled as tagged records, the tag in the field   *)
(* "type":                                                                  *)
(*   Num(n)    a raw number            Str(s)   a raw string                *)
(*   Ref(i)    {type: 5, value: i}     Label(n) {type: 1, value: n}         *)
(*   Arr(s)    an array                Null     null                        *)
(*   Undefined undefined               Obj(r)   a record copied in place of *)
(*                                              a reference                 *)
(* A record of the table (and a tree node) is a function from field names   *)
(* to such values.                                                          *)
(***************************************************************************)
EXTENDS Integers, Sequences, FiniteSets, TLC

VARIABLES
    useJSON,    \* state.useJSON
    jsonData,   \* the model's record table: state.models[modelID].jsonData,
                \* and the lines state.api.GetLine serves for the same model
    apiLines,   \* the order in which state.api.GetLineIDsWithType lists ids
    call,       \* the PropertyManager call made last and its arguments
    treeChunks, \* the chunks getSpatialTreeChunks built for that call (Ok or Err)
    result,     \* what that call returned (Ok) or threw (Err)
    wasmModule,       \* whether state.api.wasmModule is defined
    loadedModels,     \* IFCParser.loadedModels
    currentWebIfcID,  \* IFCParser.currentWebIfcID
    currentModelID,   \* IFCParser.currentModelID
    models,           \* state.models: model id -> [modelID, mesh, items, types, jsonData]
    apiModels,        \* the files state.api has opened; the n-th OpenModel gets id n - 1
    files,            \* files[t]: the placed geometries of the buffer parse call t is given
    task              \* task[t]: where parse call t stands, and its locals

pmVars == <<jsonData, apiLines, call, treeChunks, result>>
parserVars ==
    <<wasmModule, loadedModels, currentWebIfcID, currentModelID, models, apiModels,
      files, task>>
vars == <<useJSON, pmVars, parserVars>>

(***************************** bounds ***************************************)
MaxNode == 3        \* element records have ids 1..MaxNode
MaxStack == 5       \* nested getSpatialNode calls the call stack can hold
MaxElem == 2        \* elements of the models the property queries run on: 1..MaxElem
MaxFrags == 3       \* placed geometries in the file of a load

(***************************** JS values ************************************)
Num(n) == [type |-> "NUMBER", value |-> n]
Str(s) == [type |-> "STRING", value |-> s]
Ref(i) == [type |-> "REF", value |-> i]
Label(n) == [type |-> "LABEL", value |-> n]
Arr(s) == [type |-> "ARRAY", value |-> s]
Obj(r) == [type |-> "OBJECT", value |-> r]
Null == [type |-> "NULL"]
Undefined == [type |-> "UNDEFINED"]

Ok(v) == [ok |-> TRUE, val |-> v]
Err(e) == [ok |-> FALSE, err |-> e]

IsArray(v) == v.type = "ARRAY"
IsRef(v) == v.type = "REF"

RECURSIVE SortedSeq(_)
\* Object.keys of a table with integer keys: ascending numeric order
SortedSeq(S) ==
    IF S = {} THEN <<>>
    ELSE LET m == CHOOSE x \in S : \A y \in S : x <= y
         IN <<m>> \o SortedSeq(S \ {m})

Keys(data) == SortedSeq(DOMAIN data)

Range(s) == {s[i] : i \in DOMAIN s}

(***************************** BaseDefinitions ******************************)
Aggregates ==
    [name |-> "IFCRELAGGREGATES", relating |-> "RelatingObject",
     related |-> "RelatedObjects", key |-> "children"]
Spatial ==
    [name |-> "IFCRELCONTAINEDINSPATIALSTRUCTURE", relating |-> "RelatingStructure",
     related |-> "RelatedElements", key |-> "children"]
Psets ==
    [name |-> "IFCRELDEFINESBYPROPERTIES", relating |-> "RelatingPropertyDefinition",
     related |-> "RelatedObjects", key |-> "hasPsets"]

TypeProps ==
    [name |-> "IFCRELDEFINESBYTYPE", relating |-> "RelatingType",
     related |-> "RelatedObjects", key |-> "hasType"]
Materials ==
    [name |-> "IFCRELASSOCIATESMATERIAL", relating |-> "RelatingMaterial",
     related |-> "RelatedObjects", key |-> "hasMaterial"]

IFCPROJECT == "IFCPROJECT"

\* String.prototype.toUpperCase on the type names the table holds
ToUpperCase(s) ==
    CASE s = "IfcProject" -> "IFCPROJECT"
      [] s = "IfcSite" -> "IFCSITE"
      [] OTHER -> s

(***************************** record store *********************************)
\* filterJSONItemsByType
FilterJSONItemsByType(data, typeName, verbose) ==
    LET keys == Keys(data)
        hit == SelectSeq(keys, LAMBDA k : ToUpperCase(data[k].type.value) = typeName)
    IN [i \in DOMAIN hit |-> IF verbose THEN data[hit[i]] ELSE hit[i]]

\* getAllItemsOfTypeJSON (IfcTypesMap knows every type name of the model)
GetAllItemsOfTypeJSON(type, verbose) ==
    FilterJSONItemsByType(jsonData, type, verbose)

\* state.api.GetLineIDsWithType: the ids of the lines of a type, in the api's order
GetLineIDsWithType(type) ==
    SelectSeq(apiLines, LAMBDA k : ToUpperCase(jsonData[k].type.value) = type)

\* state.api.GetLine
GetLine(id) == jsonData[id]

\* getItemProperties: an async method, so the caller receives a promise
GetItemProperties(id) ==
    [promise |-> IF id \in DOMAIN jsonData THEN jsonData[id] ELSE Undefined]

\* { ...x }: the own enumerable properties of x; a promise has none
OwnProperties(x) ==
    IF "promise" \in DOMAIN x THEN [f \in {} |-> Undefined] ELSE x

(***************************** relation index *******************************)
\* saveChunk with the concat forgotten: a later record replaces the earlier ids
SaveChunkOverwrite(chunks, propNames, rel) ==
    LET relating == rel[propNames.relating].value
        field == rel[propNames.related]
    IN IF ~IsArray(field) THEN Err("TypeError")
       ELSE LET related == [i \in DOMAIN field.value |-> field.value[i].value]
            IN Ok((relating :> related) @@ chunks)

\* saveChunk: rel[related].map throws when the field is no array
SaveChunk(chunks, propNames, rel) ==
    LET relating == rel[propNames.relating].value
        field == rel[propNames.related]
    IN IF ~IsArray(field) THEN Err("TypeError")
       ELSE LET related == [i \in DOMAIN field.value |-> field.value[i].value]
            IN IF relating \notin DOMAIN chunks
               THEN Ok((relating :> related) @@ chunks)
               ELSE Ok([chunks EXCEPT ![relating] = @ \o related])

RECURSIVE SaveChunks(_, _, _)
\* the forEach / for loop of getChunksJSON and getChunksWebIfcAPI
SaveChunks(chunks, propNames, rels) ==
    IF rels = <<>> THEN Ok(chunks)
    ELSE LET r == SaveChunk(chunks, propNames, Head(rels))
         IN IF r.ok THEN SaveChunks(r.val, propNames, Tail(rels)) ELSE r

\* getChunksJSON
GetChunksJSON(chunks, propNames) ==
    SaveChunks(chunks, propNames, GetAllItemsOfTypeJSON(propNames.name, TRUE))

\* getChunksWebIfcAPI
GetChunksWebIfcAPI(chunks, propNames) ==
    LET relation == GetLineIDsWithType(propNames.name)
    IN SaveChunks(chunks, propNames, [i \in DOMAIN relation |-> GetLine(relation[i])])

GetChunks(chunks, propNames) ==
    IF useJSON THEN GetChunksJSON(chunks, propNames)
    ELSE GetChunksWebIfcAPI(chunks, propNames)

\* getSpatialTreeChunks with the spatial relation left out
GetSpatialTreeChunksAggregatesOnly == GetChunks(<<>>, Aggregates)

\* getSpatialTreeChunks: one map, filled from the aggregates and then the spatial records
GetSpatialTreeChunks ==
    LET a == GetChunks(<<>>, Aggregates)
    IN IF a.ok THEN GetChunks(a.val, Spatial) ELSE a

(***************************** tree builder *********************************)
\* getNodeType
GetNodeType(id) ==
    IF useJSON THEN jsonData[id].type
    ELSE Str(ToUpperCase(jsonData[id].type.value))

\* newNode
NewNode(id) == [expressID |-> Num(id), type |-> GetNodeType(id), children |-> <<>>]

\* newIfcProject
NewIfcProject(id) == [expressID |-> id, type |-> Str("IFCPROJECT"), children |-> <<>>]

\* the body of the map callback of getChildren, up to the recursive call
ChildNode(child, includeProperties) ==
    LET node == NewNode(child)
    IN IF includeProperties
       THEN OwnProperties(GetItemProperties(child)) @@ node
       ELSE node

RECURSIVE GetSpatialNode(_, _, _, _)
RECURSIVE GetChildren(_, _, _, _, _)
RECURSIVE MapChildren(_, _, _, _)

\* children.map(...) of getChildren: the nodes in order, or the first error thrown
MapChildren(children, chunks, includeProperties, depth) ==
    IF children = <<>> THEN Ok(<<>>)
    ELSE IF Head(children) \notin DOMAIN jsonData THEN Err("TypeError")
    ELSE LET r == GetSpatialNode(ChildNode(Head(children), includeProperties),
                                 chunks, includeProperties, depth + 1)
         IN IF ~r.ok THEN r
            ELSE LET rest == MapChildren(Tail(children), chunks,
                                         includeProperties, depth)
                 IN IF rest.ok THEN Ok(<<r.val>> \o rest.val) ELSE rest

\* getChildren
GetChildren(node, chunks, propNames, includeProperties, depth) ==
    IF node.expressID.type = "UNDEFINED" \/ node.expressID.value \notin DOMAIN chunks
    THEN Ok(node)
    ELSE LET kids == MapChildren(chunks[node.expressID.value], chunks,
                                 includeProperties, depth)
         IN IF kids.ok THEN Ok((propNames.key :> kids.val) @@ node) ELSE kids

\* getSpatialNode; a call nested deeper than the stack holds throws RangeError
GetSpatialNode(node, chunks, includeProperties, depth) ==
    IF depth > MaxStack THEN Err("RangeError")
    ELSE LET a == GetChildren(node, chunks, Aggregates, includeProperties, depth)
         IN IF a.ok
            THEN GetChildren(a.val, chunks, Spatial, includeProperties, depth)
            ELSE a

\* array[0] and Vector.get(0): undefined when there is no first element
First(ids) == IF ids = <<>> THEN Undefined ELSE Num(ids[1])

\* getSpatialStructureJSON
GetSpatialStructureJSON(includeProperties) ==
    LET chunks == GetSpatialTreeChunks
    IN IF ~chunks.ok THEN chunks
       ELSE LET projectID == First(GetAllItemsOfTypeJSON(IFCPROJECT, FALSE))
            IN GetSpatialNode(NewIfcProject(projectID), chunks.val, includeProperties, 1)

\* getSpatialStructureWebIfcAPI
GetSpatialStructureWebIfcAPI(includeProperties) ==
    LET chunks == GetSpatialTreeChunks
    IN IF ~chunks.ok THEN chunks
       ELSE LET projectID == First(GetLineIDsWithType(IFCPROJECT))
            IN GetSpatialNode(NewIfcProject(projectID), chunks.val, includeProperties, 1)

\* getSpatialStructure
GetSpatialStructure(includeProperties) ==
    /\ call' = [op |-> "getSpatialStructure", includeProperties |-> includeProperties]
    /\ treeChunks' = GetSpatialTreeChunks
    /\ result' = IF useJSON THEN GetSpatialStructureJSON(includeProperties)
                 ELSE GetSpatialStructureWebIfcAPI(includeProperties)
    /\ UNCHANGED <<useJSON, jsonData, apiLines, parserVars>>

(***************************** property resolver ****************************)
\* { ...data[id] }: a copy of the record, an empty object when there is none
CopyOf(id) ==
    IF id \in DOMAIN jsonData THEN jsonData[id] ELSE [f \in {} |-> Undefined]

\* getItemsByIDJSON
GetItemsByIDJSON(ids) == [i \in DOMAIN ids |-> CopyOf(ids[i])]

\* isRelated without the single-reference case
IsRelatedArrayOnly(id, rel, propNames) ==
    LET relatedItems == rel[propNames.related]
    IN IsArray(relatedItems)
       /\ \E i \in DOMAIN relatedItems.value : relatedItems.value[i].value = id

\* isRelated
IsRelated(id, rel, propNames) ==
    LET relatedItems == rel[propNames.related]
    IN IF IsArray(relatedItems)
       THEN \E i \in DOMAIN relatedItems.value : relatedItems.value[i].value = id
       ELSE relatedItems.value = id

\* getRelated: IDs with the relating ids of rel pushed
GetRelated(rel, propNames, IDs) ==
    LET element == rel[propNames.relating]
    IN IF ~IsArray(element) THEN Append(IDs, element.value)
       ELSE IDs \o [i \in DOMAIN element.value |-> element.value[i].value]

RECURSIVE CollectRelated(_, _, _, _)
\* the loop over the relation records of getAllRelatedItemsOfTypeJSON / WebIfcAPI
CollectRelated(lines, id, propNames, IDs) ==
    IF lines = <<>> THEN IDs
    ELSE CollectRelated(Tail(lines), id, propNames,
                        IF IsRelated(id, Head(lines), propNames)
                        THEN GetRelated(Head(lines), propNames, IDs)
                        ELSE IDs)

\* getAllRelatedItemsOfTypeJSON
GetAllRelatedItemsOfTypeJSON(id, propNames) ==
    CollectRelated(GetAllItemsOfTypeJSON(propNames.name, TRUE), id, propNames, <<>>)

\* getAllRelatedItemsOfTypeWebIfcAPI
GetAllRelatedItemsOfTypeWebIfcAPI(id, propNames) ==
    LET lines == GetLineIDsWithType(propNames.name)
    IN CollectRelated([i \in DOMAIN lines |-> GetLine(lines[i])], id, propNames, <<>>)

RECURSIVE GetJSONReferencesRecursively(_)
RECURSIVE GetJSONItem(_)
RECURSIVE GetMultipleJSONItems(_)

\* getJSONReferencesRecursively: the object after every key was visited
GetJSONReferencesRecursively(jsonObject) ==
    [key \in DOMAIN jsonObject |-> GetJSONItem(jsonObject[key])]

\* getJSONItem: what jsonObject[key] holds afterwards
GetJSONItem(item) ==
    IF IsArray(item) THEN GetMultipleJSONItems(item)
    ELSE IF IsRef(item)
    THEN Obj(GetJSONReferencesRecursively(CopyOf(item.value)))
    ELSE item

\* getMultipleJSONItems: the array mapped; only elements tagged as references change
GetMultipleJSONItems(array) ==
    Arr([i \in DOMAIN array.value |->
            IF IsRef(array.value[i])
            THEN Obj(GetJSONReferencesRecursively(CopyOf(array.value[i].value)))
            ELSE array.value[i]])

\* getPropertyJSON
GetPropertyJSON(elementID, recursive, propName) ==
    LET resultIDs == GetAllRelatedItemsOfTypeJSON(elementID, propName)
        res == GetItemsByIDJSON(resultIDs)
    IN IF recursive THEN [i \in DOMAIN res |-> GetJSONReferencesRecursively(res[i])]
       ELSE res

(***************************** the resolver's assignments *******************)
\* The resolver assigns to the fields of the objects it walks. An object is
\* either the record the table holds under an id, or an object made during
\* the call; only an assignment to the former changes the table.
Stored(id) == [stored |-> TRUE, id |-> id]
Fresh == [stored |-> FALSE]

\* data[id] handed out as it is, without the copy
SameObject(object) == object

\* { ...x }: a new object (its field values are the ones x holds)
Spread(object) == Fresh

\* getItemsByIDJSON(modelID, [id])[0]: the object and the fields it starts with
ItemByID(data, id) ==
    [object |-> Spread(Stored(id)),
     fields |-> IF id \in DOMAIN data THEN data[id] ELSE [f \in {} |-> Undefined]]

\* jsonObject[key] = v: the table after the assignment
Assign(data, object, key, v) ==
    IF object.stored THEN [data EXCEPT ![object.id] = (key :> v) @@ @] ELSE data

RECURSIVE GetJSONReferencesRecursivelyStore(_, _, _)
RECURSIVE GetJSONItemStore(_, _, _)
RECURSIVE GetMultipleJSONItemsStore(_, _)

\* getJSONReferencesRecursively: the table after the keys left were visited
GetJSONReferencesRecursivelyStore(data, jsonObject, keys) ==
    IF keys = {} THEN data
    ELSE LET key == CHOOSE k \in keys : TRUE
         IN GetJSONReferencesRecursivelyStore(GetJSONItemStore(data, jsonObject, key),
                                              jsonObject, keys \ {key})

\* the map callback of getMultipleJSONItems applied to the items in order: item
\* is a local of the callback, so only the walk of the fetched copy can assign
GetMultipleJSONItemsStore(data, items) ==
    IF items = <<>> THEN data
    ELSE LET item == Head(items)
             target == ItemByID(data, item.value)
         IN GetMultipleJSONItemsStore(
                IF IsRef(item)
                THEN GetJSONReferencesRecursivelyStore(data, target, DOMAIN target.fields)
                ELSE data,
                Tail(items))

\* getJSONItem: the table after jsonObject[key] was resolved
GetJSONItemStore(data, jsonObject, key) ==
    LET item == jsonObject.fields[key]
    IN IF IsArray(item)
       THEN Assign(GetMultipleJSONItemsStore(data, item.value), jsonObject.object,
                   key, GetMultipleJSONItems(item))
       ELSE IF IsRef(item)
       THEN LET target == ItemByID(data, item.value)
            IN GetJSONReferencesRecursivelyStore(
                   Assign(data, jsonObject.object, key, Obj(target.fields)),
                   target, DOMAIN target.fields)
       ELSE data

RECURSIVE ForEachResultStore(_, _)
\* result.forEach(result => getJSONReferencesRecursively(modelID, result))
ForEachResultStore(data, ids) ==
    IF ids = <<>> THEN data
    ELSE LET target == ItemByID(data, Head(ids))
         IN ForEachResultStore(
                GetJSONReferencesRecursivelyStore(data, target, DOMAIN target.fields),
                Tail(ids))

\* getPropertyJSON: the table the call leaves behind
GetPropertyJSONStore(elementID, recursive, propName) ==
    IF recursive
    THEN ForEachResultStore(jsonData, GetAllRelatedItemsOfTypeJSON(elementID, propName))
    ELSE jsonData

RECURSIVE Flatten(_)
\* state.api.GetLine(modelID, id, true): the line with its references replaced by lines
Flatten(v) ==
    IF v.type = "REF" THEN Obj([f \in DOMAIN CopyOf(v.value) |-> Flatten(CopyOf(v.value)[f])])
    ELSE IF v.type = "ARRAY" THEN Arr([i \in DOMAIN v.value |-> Flatten(v.value[i])])
    ELSE v

GetLineRecursive(id, recursive) ==
    IF recursive THEN [f \in DOMAIN jsonData[id] |-> Flatten(jsonData[id][f])]
    ELSE GetLine(id)

\* getPropertyWebIfcAPI
GetPropertyWebIfcAPI(elementID, recursive, propName) ==
    LET propSetIds == GetAllRelatedItemsOfTypeWebIfcAPI(elementID, propName)
    IN [i \in DOMAIN propSetIds |-> GetLineRecursive(propSetIds[i], recursive)]

\* the common body of getPropertySets, getTypeProperties and getMaterialsProperties
GetProperty(op, elementID, recursive, propName) ==
    /\ call' = [op |-> op, elementID |-> elementID, recursive |-> recursive,
                propName |-> propName]
    /\ result' = Ok(IF useJSON THEN GetPropertyJSON(elementID, recursive, propName)
                    ELSE GetPropertyWebIfcAPI(elementID, recursive, propName))
    /\ jsonData' = IF useJSON THEN GetPropertyJSONStore(elementID, recursive, propName)
                   ELSE jsonData
    /\ UNCHANGED <<useJSON, apiLines, treeChunks, parserVars>>

\* getPropertySets
GetPropertySets(elementID, recursive) ==
    GetProperty("getPropertySets", elementID, recursive, Psets)

\* getTypeProperties
GetTypeProperties(elementID, recursive) ==
    GetProperty("getTypeProperties", elementID, recursive, TypeProps)

\* getMaterialsProperties
GetMaterialsProperties(elementID, recursive) ==
    GetProperty("getMaterialsProperties", elementID, recursive, Materials)

\* getAllItemsOfTypeWebIfcAPI
GetAllItemsOfTypeWebIfcAPI(type, verbose) ==
    LET items == GetLineIDsWithType(type)
    IN IF ~verbose THEN items ELSE [i \in DOMAIN items |-> GetLine(items[i])]

\* getAllItemsOfType
GetAllItemsOfType(type, verbose) ==
    /\ call' = [op |-> "getAllItemsOfType", type |-> type, verbose |-> verbose]
    /\ result' = Ok(IF useJSON THEN GetAllItemsOfTypeJSON(type, verbose)
                    ELSE GetAllItemsOfTypeWebIfcAPI(type, verbose))
    /\ UNCHANGED <<useJSON, jsonData, apiLines, treeChunks, parserVars>>

\* getItemProperties, awaited by the caller: a copy of the record, or the api's line
ItemProperties(id) ==
    /\ call' = [op |-> "getItemProperties", id |-> id]
    /\ result' = Ok(IF useJSON THEN CopyOf(id) ELSE GetLine(id))
    /\ UNCHANGED <<useJSON, jsonData, apiLines, treeChunks, parserVars>>

(***************************** IFCParser *************************************)
Loads == {1, 2}     \* the parse calls

\* `${n}` for the colour components of the model, given in hundredths
NumberToString(n) ==
    CASE n = 0 -> <<"0">>
      [] n = 100 -> <<"1">>
      [] n = 50 -> <<"0", ".", "5">>
      [] n = 51 -> <<"0", ".", "5", "1">>

\* `${color.x}${color.y}${color.z}${color.w}`
ColorID(color) ==
    NumberToString(color.x) \o NumberToString(color.y)
    \o NumberToString(color.z) \o NumberToString(color.w)

RECURSIVE Merge(_)
\* merge: one geometry holding the data of all the geometries given, in order
Merge(geometries) ==
    IF geometries = <<>> THEN <<>> ELSE Head(geometries) \o Merge(Tail(geometries))

\* the index of the entry items[colorID], 0 when there is none
ItemIndex(items, colorID) ==
    IF \E i \in DOMAIN items : items[i].colorID = colorID
    THEN CHOOSE i \in DOMAIN items : items[i].colorID = colorID
    ELSE 0

\* new MeshLambertMaterial for a colour, as createMaterial sets it up
NewMaterial(color) ==
    [color |-> <<color.x, color.y, color.z>>,
     transparent |-> color.w # 100,
     opacity |-> IF color.w # 100 THEN color.w ELSE 100]

\* createMaterial with the early return left out: the entry is made anew
CreateMaterialAlways(items, colorID, color) ==
    LET fresh == [colorID |-> colorID, material |-> NewMaterial(color), geometries |-> <<>>]
    IN IF ItemIndex(items, colorID) # 0
       THEN [items EXCEPT ![ItemIndex(items, colorID)] = fresh]
       ELSE Append(items, fresh)

\* createMaterial
CreateMaterial(items, colorID, color) ==
    IF ItemIndex(items, colorID) # 0 THEN items
    ELSE Append(items, [colorID |-> colorID, material |-> NewMaterial(color),
                        geometries |-> <<>>])

\* saveGeometryByMaterial: the items of the current model afterwards
SaveGeometryByMaterial(items, geom, placedGeom, id) ==
    LET colorID == ColorID(placedGeom.color)
        withMaterial == CreateMaterial(items, colorID, placedGeom.color)
        k == ItemIndex(withMaterial, colorID)
        item == withMaterial[k]
    IN IF id \notin DOMAIN item.geometries
       THEN [withMaterial EXCEPT ![k].geometries = (id :> geom) @@ item.geometries]
       ELSE [withMaterial EXCEPT ![k].geometries[id] = Merge(<<@, geom>>)]

\* getGeometryAndMaterials
GetGeometryAndMaterials(items) ==
    [geometry |-> Merge([m \in DOMAIN items |->
                            Merge([j \in DOMAIN Keys(items[m].geometries) |->
                                     items[m].geometries[Keys(items[m].geometries)[j]]])]),
     materials |-> [m \in DOMAIN items |-> items[m].material]]

NoMesh == [modelID |-> -1, geometry |-> <<>>, materials |-> <<>>]

NewTask ==
    [pc |-> "idle", webIfcID |-> -1, registered |-> -1, flatMeshes |-> <<>>,
     flatFrom |-> -1, i |-> 0, geometryFrom |-> -1, mesh |-> NoMesh]

\* state.api.OpenModel is called: the api opens the buffer under its next id
CallOpenModel(t) ==
    /\ apiModels' = Append(apiModels, t)
    /\ task' = [task EXCEPT ![t].pc = "OpenModel", ![t].webIfcID = Len(apiModels)]

\* parse is called: it runs up to its first await
Parse(t) ==
    /\ task[t].pc = "idle"
    /\ IF ~wasmModule
       THEN /\ task' = [task EXCEPT ![t].pc = "Init"]
            /\ UNCHANGED apiModels
       ELSE CallOpenModel(t)
    /\ UNCHANGED <<useJSON, pmVars, wasmModule, loadedModels, currentWebIfcID,
                   currentModelID, models, files>>

\* await this.state.api.Init() resumes; newIfcModel runs up to await OpenModel
InitDone(t) ==
    /\ task[t].pc = "Init"
    /\ wasmModule' = TRUE
    /\ CallOpenModel(t)
    /\ UNCHANGED <<useJSON, pmVars, loadedModels, currentWebIfcID, currentModelID,
                   models, files>>

\* await OpenModel resumes: the rest of newIfcModel
OpenModelDone(t) ==
    /\ task[t].pc = "OpenModel"
    /\ currentWebIfcID' = task[t].webIfcID
    /\ currentModelID' = IF useJSON THEN loadedModels ELSE currentWebIfcID'
    /\ models' = (currentModelID' :>
                    [modelID |-> currentModelID', mesh |-> NoMesh, items |-> <<>>,
                     types |-> <<>>, jsonData |-> <<>>]) @@ models
    /\ task' = [task EXCEPT ![t].pc = "newIfcModel", ![t].registered = currentModelID']
    /\ UNCHANGED <<useJSON, pmVars, wasmModule, loadedModels, apiModels, files>>

\* await this.newIfcModel resumes: loadedModels++, and loadAllGeometry runs
\* up to await LoadAllGeometry(this.currentWebIfcID)
NewIfcModelDone(t) ==
    /\ task[t].pc = "newIfcModel"
    /\ loadedModels' = loadedModels + 1
    /\ task' = [task EXCEPT ![t].pc = "LoadAllGeometry", ![t].flatFrom = currentWebIfcID]
    /\ UNCHANGED <<useJSON, pmVars, wasmModule, currentWebIfcID, currentModelID, models,
                   apiModels, files>>

\* the loop of saveAllPlacedGeometriesByMaterial reaches placed geometry i: either
\* savePlacedGeometry runs up to await GetGeometry(this.currentWebIfcID, ...), or
\* the loop is over and saveAllPlacedGeometriesByMaterial returns
LoopAt(t, flatMeshes, i) ==
    IF i <= Len(flatMeshes)
    THEN task' = [task EXCEPT ![t].pc = "GetGeometry", ![t].flatMeshes = flatMeshes,
                              ![t].i = i, ![t].geometryFrom = currentWebIfcID]
    ELSE task' = [task EXCEPT ![t].pc = "saveAllPlacedGeometriesByMaterial",
                              ![t].flatMeshes = flatMeshes, ![t].i = i]

\* await LoadAllGeometry resumes with the placed geometries of the model asked for
LoadAllGeometryDone(t) ==
    /\ task[t].pc = "LoadAllGeometry"
    /\ LoopAt(t, files[apiModels[task[t].flatFrom + 1]], 1)
    /\ UNCHANGED <<useJSON, pmVars, wasmModule, loadedModels, currentWebIfcID,
                   currentModelID, models, apiModels, files>>

\* the awaits of getBufferGeometry resume (GetGeometry, getVertices, getIndices touch
\* no field of the parser); the rest of savePlacedGeometry stores the geometry
GetGeometryDone(t) ==
    /\ task[t].pc = "GetGeometry"
    /\ LET placedGeom == task[t].flatMeshes[task[t].i]
           id == placedGeom.expressID
           geom == <<[load |-> t, id |-> id, from |-> task[t].geometryFrom,
                      geometryExpressID |-> placedGeom.geometryExpressID]>>
       IN models' = [models EXCEPT ![currentModelID].items =
                        SaveGeometryByMaterial(@, geom, placedGeom, id)]
    /\ task' = [task EXCEPT ![t].pc = "savePlacedGeometry"]
    /\ UNCHANGED <<useJSON, pmVars, wasmModule, loadedModels, currentWebIfcID,
                   currentModelID, apiModels, files>>

\* await this.savePlacedGeometry resumes: the loop goes on
SavePlacedGeometryDone(t) ==
    /\ task[t].pc = "savePlacedGeometry"
    /\ LoopAt(t, task[t].flatMeshes, task[t].i + 1)
    /\ UNCHANGED <<useJSON, pmVars, wasmModule, loadedModels, currentWebIfcID,
                   currentModelID, models, apiModels, files>>

\* await this.saveAllPlacedGeometriesByMaterial resumes: generateAllGeometriesByMaterial
GenerateAllGeometriesByMaterial(t) ==
    /\ task[t].pc = "saveAllPlacedGeometriesByMaterial"
    /\ LET gm == GetGeometryAndMaterials(models[currentModelID].items)
           mesh == [modelID |-> currentModelID, geometry |-> gm.geometry,
                    materials |-> gm.materials]
       IN /\ models' = [models EXCEPT ![currentModelID].mesh = mesh]
          /\ task' = [task EXCEPT ![t].pc = "done", ![t].mesh = mesh]
    /\ UNCHANGED <<useJSON, pmVars, wasmModule, loadedModels, currentWebIfcID,
                   currentModelID, apiModels, files>>

\* a step of parse call t
ParseStep(t) ==
    \/ Parse(t)
    \/ InitDone(t)
    \/ OpenModelDone(t)
    \/ NewIfcModelDone(t)
    \/ LoadAllGeometryDone(t)
    \/ GetGeometryDone(t)
    \/ SavePlacedGeometryDone(t)
    \/ GenerateAllGeometriesByMaterial(t)

(***************************** models of the tree specification *************)
\* the parser as constructed, before any parse call
ParserInit ==
    /\ wasmModule = FALSE
    /\ loadedModels = 0
    /\ currentWebIfcID = -1
    /\ currentModelID = -1
    /\ models = <<>>
    /\ apiModels = <<>>
    /\ task = [t \in Loads |-> NewTask]

ElemIds == 1..MaxNode
RelIds == {MaxNode + 1, MaxNode + 2}

Reverse(s) == [i \in DOMAIN s |-> s[Len(s) + 1 - i]]

ElemRecord(id, t) == [expressID |-> Num(id), type |-> Str(t), Name |-> Label(id)]

RelRecord(id, propNames, relating, related) ==
    ("expressID" :> Num(id)) @@ ("type" :> Str(propNames.name))
    @@ (propNames.relating :> relating) @@ (propNames.related :> related)

AllRelated ==
    {Arr(<<Ref(a)>>) : a \in ElemIds}
    \cup {Arr(<<Ref(a), Ref(b)>>) : a, b \in ElemIds}
    \cup {Ref(a) : a \in ElemIds}

\* a related field: an array of one or two references, or a single reference
\* (the schema's sets hold no id twice)
RelatedChoices ==
    {v \in AllRelated : ~IsArray(v) \/ Len(v.value) = 1 \/ v.value[1] # v.value[2]}

ElemType(id, t1, t2) ==
    IF id = 1 THEN t1 ELSE IF id = 2 THEN t2 ELSE "IFCBUILDINGSTOREY"

InitTree ==
    /\ useJSON \in BOOLEAN
    /\ \E t \in {<<"IfcProject", "IFCSITE">>, <<"IfcProject", "IFCPROJECT">>,
                  <<"IFCSITE", "IFCSITE">>},
          kind \in [RelIds -> {Aggregates, Spatial}],
          relating \in [RelIds -> ElemIds],
          related \in [RelIds -> RelatedChoices] :
          jsonData = [id \in ElemIds \cup RelIds |->
                        IF id \in ElemIds THEN ElemRecord(id, ElemType(id, t[1], t[2]))
                        ELSE RelRecord(id, kind[id], Ref(relating[id]), related[id])]
    /\ apiLines \in (IF useJSON THEN {Keys(jsonData)}
                     ELSE {Keys(jsonData), Reverse(Keys(jsonData))})
    /\ call = [op |-> "none"]
    /\ treeChunks = Ok(<<>>)
    /\ result = Ok(Undefined)
    /\ ParserInit
    /\ files = [t \in Loads |-> <<>>]

NextTree == \E includeProperties \in BOOLEAN : GetSpatialStructure(includeProperties)

SpecTree == InitTree /\ [][NextTree]_vars

(***************************** what the relation records say ****************)
\* the order in which the store hands out its records
RecordOrder == IF useJSON THEN Keys(jsonData) ELSE apiLines

IsRelation(id, propNames) == jsonData[id].type.value = propNames.name

\* the ids a related field names, array or single reference
FieldIds(field) ==
    IF IsArray(field) THEN [i \in DOMAIN field.value |-> field.value[i].value]
    ELSE <<field.value>>

RECURSIVE Listed(_, _, _)
\* the ids the records of one relation kind relate to p, in record order
Listed(order, propNames, p) ==
    IF order = <<>> THEN <<>>
    ELSE LET id == Head(order)
             here == IF IsRelation(id, propNames)
                        /\ jsonData[id][propNames.relating].value = p
                     THEN FieldIds(jsonData[id][propNames.related])
                     ELSE <<>>
         IN here \o Listed(Tail(order), propNames, p)

ExpectedChildren(p) ==
    Listed(RecordOrder, Aggregates, p) \o Listed(RecordOrder, Spatial, p)

RECURSIVE Closure(_)
\* the ids reachable from the ids of S over aggregates and spatial edges
Closure(S) ==
    LET T == S \cup UNION {Range(ExpectedChildren(p)) : p \in S \cap ElemIds}
    IN IF T = S THEN S ELSE Closure(T)

ProjectIds == {id \in DOMAIN jsonData : ToUpperCase(jsonData[id].type.value) = IFCPROJECT}

RelationIds == {id \in DOMAIN jsonData : IsRelation(id, Aggregates) \/ IsRelation(id, Spatial)}

\* every related field of a tree relation is the array the IFC schema prescribes
ArraysOnly ==
    \A id \in RelationIds :
        \/ IsRelation(id, Aggregates) /\ IsArray(jsonData[id][Aggregates.related])
        \/ IsRelation(id, Spatial) /\ IsArray(jsonData[id][Spatial.related])

\* no id reachable from S lies on a cycle
AcyclicFrom(S) ==
    \A p \in Closure(S) : p \notin Closure(Range(ExpectedChildren(p)))

RECURSIVE NodesOf(_)
\* every node of a tree, as its id and the ids of its children in order
NodesOf(node) ==
    {[id |-> node.expressID.value,
      kids |-> [i \in DOMAIN node.children |-> node.children[i].expressID.value]]}
    \cup UNION {NodesOf(node.children[i]) : i \in DOMAIN node.children}

TreeCall == call.op = "getSpatialStructure"

\* C1: for acyclic aggregates/spatial relation records (their related fields
\* arrays) and a single project record, getSpatialStructure returns a tree whose
\* node ids are exactly the ids reachable from the project over aggregates and
\* spatial edges, and every node's children are its aggregates-related ids in
\* record order followed by its spatial-related ids in record order, duplicates kept.
C1_TreeIsClosure ==
    (TreeCall /\ Cardinality(ProjectIds) = 1 /\ ArraysOnly /\ AcyclicFrom(ProjectIds))
    => /\ result.ok
       /\ {n.id : n \in NodesOf(result.val)} = Closure(ProjectIds)
       /\ \A n \in NodesOf(result.val) : n.kids = ExpectedChildren(n.id)

\* a tree was returned in which one parent holds the same id twice, once per relation kind
C1_Witness ==
    /\ TreeCall /\ Cardinality(ProjectIds) = 1 /\ ArraysOnly /\ AcyclicFrom(ProjectIds)
    /\ result.ok
    /\ \E n \in NodesOf(result.val) :
          /\ Len(n.kids) = 2 /\ n.kids[1] = n.kids[2]
          /\ Listed(RecordOrder, Aggregates, n.id) = <<n.kids[1]>>
          /\ Listed(RecordOrder, Spatial, n.id) = <<n.kids[2]>>


\* the project record that comes first in record order
FirstProject == SelectSeq(RecordOrder, LAMBDA id : id \in ProjectIds)[1]

\* a tree rooted at a project record was returned
TreeReturned == TreeCall /\ result.ok /\ ProjectIds # {}

\* the ids of the nodes of the returned tree that hold c among their children
ParentsInTree(c) == {n.id : n \in {m \in NodesOf(result.val) : c \in Range(m.kids)}}

\* the ids of the returned tree's nodes other than the root node
NonRootIds == UNION {Range(n.kids) : n \in NodesOf(result.val)}

\* C2 (as amended): in every returned tree an id is attached under each node
\* whose id the relation records relate it to, so an id related to two
\* different reachable relating ids hangs under both of them, not only under
\* the first one discovered.
C2_AttachedUnderEveryParent ==
    TreeReturned =>
        \A c \in ElemIds :
            ParentsInTree(c) =
                {p \in Closure({FirstProject}) : c \in Range(ExpectedChildren(p))}

\* a tree was returned for relation records that relate one id to two different parents
C2_Witness ==
    /\ TreeReturned
    /\ \E c \in NonRootIds : Cardinality(ParentsInTree(c)) = 2

\* C2 as claimed: every non-root node id of a returned tree is the child of
\* exactly one parent.
C2_Original ==
    TreeReturned => \A c \in NonRootIds : Cardinality(ParentsInTree(c)) = 1

\* C3: relation records that form a cycle reachable from the project make
\* getSpatialStructure end in a MalformedHierarchy error.
C3_CycleIsMalformedHierarchy ==
    (TreeCall /\ ArraysOnly /\ ProjectIds # {} /\ ~AcyclicFrom({FirstProject}))
    => ~result.ok /\ result.err = "MalformedHierarchy"

\* C4: without a project record getSpatialStructure fails with MissingRoot and
\* returns no tree; with several project records the root is the first in
\* record order.
C4_MissingRootOrFirstProject ==
    (TreeCall /\ ArraysOnly) =>
        /\ ProjectIds = {} => ~result.ok /\ result.err = "MissingRoot"
        /\ (ProjectIds # {} /\ result.ok) => result.val.expressID = Num(FirstProject)

RECURSIVE Descendants(_)
\* the nodes below a node, each with all its fields
Descendants(node) ==
    UNION {{node.children[i]} \cup Descendants(node.children[i]) : i \in DOMAIN node.children}

\* C5: with includeProperties set every non-root node of the returned tree
\* carries the fields of its own record.
C5_PropertiesMerged ==
    (TreeReturned /\ call.includeProperties) =>
        \A n \in Descendants(result.val) :
            \A f \in DOMAIN jsonData[n.expressID.value] :
                f \in DOMAIN n /\ n[f] = jsonData[n.expressID.value][f]

\* C8: building the relation index raises no error for any relation record,
\* a single-reference related field included, and relates to every relating id
\* the related ids of its records in record order.
C8_IndexNeverThrows ==
    TreeCall =>
        /\ treeChunks.ok
        /\ \A p \in ElemIds :
              IF p \in DOMAIN treeChunks.val
              THEN treeChunks.val[p] = ExpectedChildren(p)
              ELSE ExpectedChildren(p) = <<>>


(***************************** models of the property specification *********)
PropElems == 1..MaxElem
PsetId == MaxElem + 1       \* a property set (or type object, or material)
PropId == MaxElem + 2       \* a property the set may hold
UnitId == MaxElem + 3       \* a unit the property may name
PropRelIds == {MaxElem + 4, MaxElem + 5}

\* the related field of a property relation: one element, or an array of two
PropRelatedChoices ==
    {Ref(a) : a \in PropElems}
    \cup {Arr(<<Ref(ab[1]), Ref(ab[2])>>) :
             ab \in {x \in PropElems \X PropElems : x[1] < x[2]}}

\* the relating field: one definition, or an array of two
PropRelatingChoices == {Ref(PsetId), Ref(PropId), Arr(<<Ref(PsetId), Ref(PropId)>>)}

\* what a property set holds: references, a nested array of references, or no reference
HasPropertiesChoices ==
    {Arr(<<Ref(PropId), Label(PropId)>>), Arr(<<Arr(<<Ref(PropId)>>)>>), Arr(<<Label(PropId)>>)}

\* the property set's HasProperties with the property's Unit: a reference or null
ContentChoices ==
    {c \in HasPropertiesChoices \X {Ref(UnitId), Null} :
        c[1] = Arr(<<Ref(PropId), Label(PropId)>>) \/ c[2] = Ref(UnitId)}

PropRecords(hasProperties, unit) ==
    [id \in {PsetId, PropId, UnitId} |->
        IF id = PsetId
        THEN [expressID |-> Num(id), type |-> Str("IFCPROPERTYSET"),
              HasProperties |-> hasProperties]
        ELSE IF id = PropId
        THEN [expressID |-> Num(id), type |-> Str("IFCPROPERTYSINGLEVALUE"), Unit |-> unit]
        ELSE [expressID |-> Num(id), type |-> Str("IFCSIUNIT"), Name |-> Label(id)]]

InitProps ==
    /\ useJSON \in BOOLEAN
    /\ \E content \in ContentChoices,
          kind \in {k \in [PropRelIds -> {Psets, TypeProps, Materials}] :
                      k[MaxElem + 4] = Psets},
          relating \in [PropRelIds -> PropRelatingChoices],
          related \in [PropRelIds -> PropRelatedChoices] :
          jsonData = [id \in PropElems |-> ElemRecord(id, "IFCWALL")]
                     @@ PropRecords(content[1], content[2])
                     @@ [id \in PropRelIds |->
                            RelRecord(id, kind[id], relating[id], related[id])]
    /\ apiLines \in (IF useJSON THEN {Keys(jsonData)}
                     ELSE {Keys(jsonData), Reverse(Keys(jsonData))})
    /\ call = [op |-> "none"]
    /\ treeChunks = Ok(<<>>)
    /\ result = Ok(Undefined)
    /\ ParserInit
    /\ files = [t \in Loads |-> <<>>]

NextProps ==
    \E elementID \in PropElems, recursive \in BOOLEAN :
        \/ GetPropertySets(elementID, recursive)
        \/ GetTypeProperties(elementID, recursive)
        \/ GetMaterialsProperties(elementID, recursive)

SpecProps == InitProps /\ [][NextProps]_vars

PropertyCall == call.op \in {"getPropertySets", "getTypeProperties", "getMaterialsProperties"}

\* the ids a relating or related field names
IdsOf(field) ==
    IF IsArray(field) THEN {field.value[i].value : i \in DOMAIN field.value}
    ELSE {field.value}

\* the ids in the relating field of the propName relation records whose related
\* field contains the element
RelatingIdsOf(elementID, propName) ==
    UNION {IdsOf(jsonData[r][propName.relating]) :
             r \in {q \in DOMAIN jsonData :
                       /\ IsRelation(q, propName)
                       /\ elementID \in IdsOf(jsonData[q][propName.related])}}

\* C6: with recursive = false the property queries return the full records of
\* exactly the ids in the relating field (single or array) of the relation
\* records whose related field (single or array) contains the element id,
\* whatever the order in which the relation records are iterated.
C6_RelatedRecords ==
    (PropertyCall /\ ~call.recursive) =>
        /\ result.ok
        /\ Range(result.val) =
              {jsonData[i] : i \in RelatingIdsOf(call.elementID, call.propName)}

\* a non-recursive query in the api's reverse line order matched a record with a
\* single-reference related field and one with an array, and returned two records
C6_Witness ==
    /\ PropertyCall /\ ~call.recursive /\ ~useJSON /\ apiLines # Keys(jsonData)
    /\ Cardinality(Range(result.val)) = 2
    /\ \E q, r \in PropRelIds :
          /\ IsRelation(q, call.propName) /\ IsRelation(r, call.propName)
          /\ jsonData[q][call.propName.related] = Ref(call.elementID)
          /\ IsArray(jsonData[r][call.propName.related])
          /\ call.elementID \in IdsOf(jsonData[r][call.propName.related])

RECURSIVE HasReference(_)
\* a value that is, or holds at some depth, a reference (a value tagged type 5)
HasReference(v) ==
    \/ v.type = "REF"
    \/ v.type = "ARRAY" /\ \E i \in DOMAIN v.value : HasReference(v.value[i])
    \/ v.type = "OBJECT" /\ \E f \in DOMAIN v.value : HasReference(v.value[f])

\* C7: the JSON-path query with recursive = true returns no reference at any
\* depth, arrays and arrays nested in arrays included, and a record without a
\* reference field comes back as the non-recursive query returns it.
C7_NoReferenceLeft ==
    (PropertyCall /\ call.recursive /\ useJSON) =>
        \A i \in DOMAIN result.val :
            /\ \A f \in DOMAIN result.val[i] : ~HasReference(result.val[i][f])
            /\ (\A f \in DOMAIN result.val[i] :
                    ~HasReference(jsonData[result.val[i].expressID.value][f]))
               => result.val[i] = jsonData[result.val[i].expressID.value]


(***************************** models of the parser specifications **********)
\* two colours whose keys coincide ("0.5" "1" "0.51" "1" and "0.51" "0.5" "1" "1"),
\* and a transparent one
Colors ==
    {[x |-> 50, y |-> 100, z |-> 51, w |-> 100],
     [x |-> 51, y |-> 50, z |-> 100, w |-> 100],
     [x |-> 100, y |-> 0, z |-> 0, w |-> 50]}

PlacedChoices ==
    {[expressID |-> e, geometryExpressID |-> e, color |-> c] : e \in {1, 2}, c \in Colors}

SeqsUpTo(n, S) == UNION {[1..k -> S] : k \in 0..n}

Placed(e, c) == [expressID |-> e, geometryExpressID |-> e, color |-> c]

PMIdle ==
    /\ jsonData = <<>>
    /\ apiLines = <<>>
    /\ call = [op |-> "none"]
    /\ treeChunks = Ok(<<>>)
    /\ result = Ok(Undefined)

\* parse call u is between its start and its return
Active(u) == task[u].pc \notin {"idle", "done"}

\* one load at a time: the first file any sequence of placed geometries
InitLoad ==
    /\ useJSON \in BOOLEAN
    /\ PMIdle
    /\ ParserInit
    /\ \E f \in SeqsUpTo(MaxFrags, PlacedChoices) :
          files = [t \in Loads |->
                     IF t = 1 THEN f
                     ELSE <<Placed(1, [x |-> 100, y |-> 0, z |-> 0, w |-> 50])>>]

NextLoad ==
    \E t \in Loads :
        /\ \A u \in Loads \ {t} : ~Active(u)
        /\ ParseStep(t)

SpecLoad == InitLoad /\ [][NextLoad]_vars

\* parse calls that may overlap: a call may start while another is suspended
InitParse ==
    /\ useJSON \in BOOLEAN
    /\ PMIdle
    /\ ParserInit
    /\ \E f \in SeqsUpTo(2, {Placed(1, [x |-> 100, y |-> 0, z |-> 0, w |-> 50])}) :
          files = [t \in Loads |->
                     IF t = 1 THEN f
                     ELSE <<Placed(2, [x |-> 51, y |-> 50, z |-> 100, w |-> 100])>>]

NextParse == \E t \in Loads : ParseStep(t)

SpecParse == InitParse /\ [][NextParse]_vars

\* the geometry pieces held anywhere in the items of a model entry
PiecesOf(items) ==
    UNION {UNION {Range(items[k].geometries[id]) : id \in DOMAIN items[k].geometries} :
             k \in DOMAIN items}

IsRegistered(t) == task[t].registered >= 0

\* C9: each load registers its own model entry under an id of its own, every
\* geometry fragment of a load is stored only in that load's entry of
\* state.models, and the mesh a parse call returns carries that load's model id.
C9_LoadsIsolated ==
    /\ \A t, u \in Loads :
          (t # u /\ IsRegistered(t) /\ IsRegistered(u))
          => task[t].registered # task[u].registered
    /\ \A m \in DOMAIN models :
          \A piece \in PiecesOf(models[m].items) : task[piece.load].registered = m
    /\ \A t \in Loads :
          task[t].pc = "done" => task[t].mesh.modelID = task[t].registered

\* how many placed geometries parse call t has stored
SavedCount(t) ==
    CASE task[t].pc = "savePlacedGeometry" -> task[t].i
      [] task[t].pc \in {"GetGeometry", "saveAllPlacedGeometriesByMaterial", "done"}
            -> task[t].i - 1
      [] OTHER -> 0

\* the placed geometries parse call t has stored, in order
Saved(t) == SubSeq(task[t].flatMeshes, 1, SavedCount(t))

\* the pieces the load yields for the placed geometries of one key and element, in order
ExpectedGeometry(t, colorID, id) ==
    LET hit == SelectSeq(Saved(t), LAMBDA f : ColorID(f.color) = colorID /\ f.expressID = id)
    IN [j \in DOMAIN hit |->
          [load |-> t, id |-> id, from |-> task[t].webIfcID,
           geometryExpressID |-> hit[j].geometryExpressID]]

\* the first placed geometry stored with the key
FirstWithKey(t, colorID) ==
    SelectSeq(Saved(t), LAMBDA f : ColorID(f.color) = colorID)[1]

\* C10: during one model load the model's items hold exactly one entry per
\* distinct colour key seen so far, the material of an entry is the one made
\* when the key was first seen, and every fragment lies in the (colour key,
\* element id) slot of its colour and element, a repeated slot merged in order.
C10_ItemsPerColourKey ==
    \A t \in Loads :
        IsRegistered(t) =>
            LET items == models[task[t].registered].items
            IN /\ \A j, k \in DOMAIN items : items[j].colorID = items[k].colorID => j = k
               /\ {items[k].colorID : k \in DOMAIN items}
                  = {ColorID(f.color) : f \in Range(Saved(t))}
               /\ \A k \in DOMAIN items :
                    /\ items[k].material = NewMaterial(FirstWithKey(t, items[k].colorID).color)
                    /\ DOMAIN items[k].geometries
                       = {f.expressID : f \in {g \in Range(Saved(t)) :
                                                 ColorID(g.color) = items[k].colorID}}
                    /\ \A id \in DOMAIN items[k].geometries :
                          items[k].geometries[id]
                          = ExpectedGeometry(t, items[k].colorID, id)

\* a load has stored three placed geometries: two different colours with one key,
\* and a (key, element) slot hit twice
C10_Witness ==
    \E t \in Loads :
        /\ IsRegistered(t) /\ SavedCount(t) = 3
        /\ \E f, g \in Range(Saved(t)) : f.color # g.color /\ ColorID(f.color) = ColorID(g.color)
        /\ \E k \in DOMAIN models[task[t].registered].items :
              \E id \in DOMAIN models[task[t].registered].items[k].geometries :
                  Len(models[task[t].registered].items[k].geometries[id]) = 2


(***************************** models of the query sequences ****************)
ProjectId == MaxElem + 6    \* the project record
AggregateId == MaxElem + 7  \* the relation that puts the elements under the project

\* the type names getAllItemsOfType is asked for
FrameTypes == {"IFCWALL", "IFCPROPERTYSET", IFCPROJECT}

\* a JSON table holding elements, their property records, a property-set relation
\* of any shape, a type or material relation of element 1, and a project that
\* aggregates the elements
InitFrame ==
    /\ useJSON = TRUE
    /\ \E content \in ContentChoices,
          kind \in {k \in [PropRelIds -> {Psets, TypeProps, Materials}] :
                      k[MaxElem + 4] = Psets /\ k[MaxElem + 5] # Psets},
          relating \in {r \in [PropRelIds -> PropRelatingChoices] :
                          r[MaxElem + 5] = Ref(PropId)},
          related \in {r \in [PropRelIds -> PropRelatedChoices] :
                         r[MaxElem + 5] = Ref(1)} :
          jsonData = [id \in PropElems |-> ElemRecord(id, "IFCWALL")]
                     @@ PropRecords(content[1], content[2])
                     @@ [id \in PropRelIds |->
                            RelRecord(id, kind[id], relating[id], related[id])]
                     @@ (ProjectId :> ElemRecord(ProjectId, "IfcProject"))
                     @@ (AggregateId :>
                            RelRecord(AggregateId, Aggregates, Ref(ProjectId),
                                      Arr([i \in PropElems |-> Ref(i)])))
    /\ apiLines = Keys(jsonData)
    /\ call = [op |-> "none"]
    /\ treeChunks = Ok(<<>>)
    /\ result = Ok(Undefined)
    /\ ParserInit
    /\ files = [t \in Loads |-> <<>>]

NextFrame ==
    \/ \E id \in DOMAIN jsonData \cup {0} : ItemProperties(id)
    \/ \E type \in FrameTypes, verbose \in BOOLEAN : GetAllItemsOfType(type, verbose)
    \/ \E elementID \in PropElems, recursive \in BOOLEAN :
          \/ GetPropertySets(elementID, recursive)
          \/ GetTypeProperties(elementID, recursive)
          \/ GetMaterialsProperties(elementID, recursive)
    \/ \E includeProperties \in BOOLEAN : GetSpatialStructure(includeProperties)

SpecFrame == InitFrame /\ [][NextFrame]_vars

\* C11: in the JSON-table path no getItemProperties, getAllItemsOfType,
\* getPropertySets / getTypeProperties / getMaterialsProperties (recursive or
\* not) or getSpatialStructure call changes the stored record table: every
\* record keeps its fields and values, references unexpanded, so a query made
\* again returns an equal result.
C11_TableUnchanged ==
    [][useJSON => /\ jsonData' = jsonData
                  /\ (call' = call => result' = result)]_vars

\* a recursive query returned a record with a reference replaced by the
\* referenced record, while the stored record still holds the reference
C11_Witness ==
    /\ useJSON /\ PropertyCall /\ call.recursive
    /\ \E i \in DOMAIN result.val : \E f \in DOMAIN result.val[i] :
          /\ result.val[i][f].type = "OBJECT"
          /\ jsonData[result.val[i].expressID.value][f].type = "REF"

====
